---- MODULE Spec2Model ----
(***************************************************************************)
(* RemoteClientConnection (d2networking/d2client/d2remoteclient):          *)
(* the client side of the UDP session with the game server.  The model     *)
(* follows remote_client_connection.go: the struct's fields, the           *)
(* foreground calls Open / Close / SendPacketToServer / SetClientListener  *)
(* and the serverListener goroutine started by Open.                       *)
(*                                                                         *)
(* Bytes are abstracted to equal-sized chunks.  A datagram is one type     *)
(* byte followed by a sequence of chunks; a chunk is a whole gzip member   *)
(* (header, deflate stream, trailer), a gzip member whose trailer          *)
(* checksum does not match, or bytes that do not start with the gzip       *)
(* magic.  The text a member inflates to is a sequence of JSON atoms.      *)
(***************************************************************************)
EXTENDS Naturals, Sequences, FiniteSets

VARIABLES uniqueId, clientListener, udpConnection, active, fg, loops, crashed

vars == <<uniqueId, clientListener, udpConnection, active, fg, loops, crashed>>

(***************************************************************************)
(* Bounds                                                                  *)
(***************************************************************************)
\* longest datagram body, in chunks
MaxBodyLen == 1
\* serverListener goroutines a run of SpecReopen may start
MaxOpens == 2

\* longest datagram body of SpecStream, in gzip members
MaxStreamLen == 2

\* make([]byte, 4096): the receive buffer is longer than every datagram of
\* the model, so at least one zero chunk always follows the body
BufCap == (IF MaxStreamLen > MaxBodyLen THEN MaxStreamLen ELSE MaxBodyLen) + 1

(***************************************************************************)
(* Packet types (d2netpackettype) as they occur in the switch              *)
(***************************************************************************)
Forwardable == {"GenerateMap", "MovePlayer", "UpdateServerInfo", "AddPlayer"}

KnownInbound == Forwardable \cup {"Ping", "PlayerDisconnectionNotification"}

\* "Pong" stands for every tag that has no case in the switch
InboundTags == KnownInbound \cup {"Pong"}

(***************************************************************************)
(* JSON and gzip, as the calls of the source use them                      *)
(***************************************************************************)
\* PacketData values a caller can hand to SendPacketToServer: "a" is a
\* payload struct, "chan" a value encoding/json cannot encode
Payloads == {"a", "chan"}

\* the payload structs a peer built on the same code sends
PeerPayloads == {"a", "b"}

\* the packet types the application sends in the runs of the model
SendTypes == {"MovePlayer"}

\* json.Marshal(packet.PacketData)
Marshal(data) ==
    IF data = "chan" THEN [err |-> TRUE, data |-> <<>>]
    ELSE [err |-> FALSE, data |-> <<data>>]

\* json.Unmarshal([]byte(stringData), &packet): exactly one JSON value
Unmarshal(stringData) ==
    IF Len(stringData) = 1 /\ stringData[1] # "x"
    THEN [err |-> FALSE, packet |-> stringData[1]]
    ELSE [err |-> TRUE, packet |-> "zero"]

\* a complete gzip member that inflates to text
Member(text) == [k |-> "member", text |-> text]

\* a gzip member whose trailer checksum does not match its content
BadSum(text) == [k |-> "badsum", text |-> text]

\* bytes that do not start with the gzip magic (a zero byte, for one)
Junk == [k |-> "junk", text |-> <<>>]

Chunks == {Member(<<"a">>), Member(<<"x">>), Member(<<>>), BadSum(<<"a">>), Junk}

RECURSIVE SeqsUpTo(_, _)
SeqsUpTo(S, n) ==
    IF n = 0 THEN {<<>>}
    ELSE LET R == SeqsUpTo(S, n - 1)
         IN  R \cup {Append(r, s) : r \in {q \in R : Len(q) = n - 1}, s \in S}

Bodies == SeqsUpTo(Chunks, MaxBodyLen)

\* every datagram the peer can send: a type byte and a body
Datagrams == [tag : InboundTags, body : Bodies]

\* the frames a well-behaved server sends, used where the run is about the
\* lifecycle and not about decoding
SessionDatagrams ==
    [tag : {"Ping", "AddPlayer"}, body : {<<Member(<<"a">>)>>}]
        \cup {[tag |-> "Ping", body |-> <<Junk>>]}

\* the gzip members SendPacketToServer can produce
SentMembers == {Member(Marshal(p).data) : p \in PeerPayloads}

\* datagrams made of the gzip members a sender produces, one or several in
\* a row, under the forwardable types and ping
StreamDatagrams ==
    [tag : Forwardable \cup {"Ping"},
     body : SeqsUpTo(SentMembers, MaxStreamLen) \ {<<>>}]

\* gzip.NewReader(buff): reads the header of the first member; on a header
\* error it returns a nil *gzip.Reader
NewReaderFails(buffer) == buffer[1].k = "junk"

\* io.Copy(sb, reader) over a multistream gzip reader: members are inflated
\* one after the other until the input ends (clean EOF) or an error
RECURSIVE IoCopy(_, _, _)
IoCopy(buffer, i, sb) ==
    IF i > Len(buffer) THEN [text |-> sb, err |-> FALSE]
    ELSE LET c == buffer[i]
         IN  CASE c.k = "member" -> IoCopy(buffer, i + 1, sb \o c.text)
               [] c.k = "badsum" -> [text |-> sb \o c.text, err |-> TRUE]
               [] OTHER          -> [text |-> sb, err |-> TRUE]

\* ReadFromUDP(buffer): the datagram overwrites the head of the buffer and
\* leaves the rest as it was
Overlay(buffer, body) ==
    [i \in 1..Len(buffer) |-> IF i <= Len(body) THEN body[i] ELSE buffer[i]]

(***************************************************************************)
(* Packets built by d2netpacket                                            *)
(***************************************************************************)
CreatePongPacket(id) == [PacketType |-> "Pong", PacketData |-> id]

CreatePlayerConnectionRequestPacket(id) ==
    [PacketType |-> "PlayerConnectionRequest", PacketData |-> id]

CreatePlayerDisconnectRequestPacket(id) ==
    [PacketType |-> "PlayerDisconnectionRequest", PacketData |-> id]

NoFrame == [tag |-> "none", body |-> <<>>]

\* SendPacketToServer up to the socket write: the error it returns before
\* writing, or the bytes it hands to udpConnection.Write
Encode(packet) ==
    LET m == Marshal(packet.PacketData)
    IN  IF m.err THEN [err |-> "marshal", frame |-> NoFrame]
        ELSE IF Len(m.data) = 0 THEN [err |-> "empty", frame |-> NoFrame]
        ELSE [err |-> "none",
              frame |-> [tag |-> packet.PacketType, body |-> <<Member(m.data)>>]]

NilConn == 0

\* how a call of a *net.UDPConn method can end
CallEnds == {"ok", "error", "panic"}

\* l.udpConnection.Write(...): Write is promoted from the embedded net.conn,
\* so on a nil *net.UDPConn the call dereferences nil and panics; on a
\* socket it sends the datagram or returns an error
WriteOutcomes(conn) == IF conn = NilConn THEN {"panic"} ELSE {"ok", "error"}

\* the thread t (the foreground or a goroutine) enters SendPacketToServer
BeginSend(t, packet) ==
    LET e == Encode(packet)
    IN  IF e.err # "none"
        THEN [t EXCEPT !.pc = "return", !.ret = e.err]
        ELSE [t EXCEPT !.pc = "write", !.frame = e.frame,
                       !.conn = udpConnection, !.tries = Append(@, e.frame)]

\* udpConnection.Write ends in the thread t: it returns, or it panics
EndWrite(t, out) ==
    IF out = "panic" THEN [t EXCEPT !.pc = "panic"]
    ELSE [t EXCEPT !.pc = "return", !.frame = NoFrame, !.conn = NilConn,
                   !.ret = IF out = "ok" THEN "ok" ELSE "write",
                   !.wire = IF out = "ok" THEN Append(@, t.frame) ELSE @]

(***************************************************************************)
(* The switch of serverListener                                            *)
(***************************************************************************)
Drop == [act |-> "drop", packet |-> [PacketType |-> "none", PacketData |-> "zero"]]

\* the body shared by the four forwarding cases: unmarshal, then hand
\* NetPacket{PacketType: packetType, PacketData: packet} to the client
ForwardCase(packetType, stringData) ==
    LET u == Unmarshal(stringData)
    IN  IF u.err THEN Drop
        ELSE [act |-> "forward",
              packet |-> [PacketType |-> packetType, PacketData |-> u.packet]]

\* the Ping case only logging the ping
PingCaseSilent(stringData) == [Drop EXCEPT !.act = "log"]

\* case d2netpackettype.Ping: answer without looking at stringData
PingCase(stringData) == [Drop EXCEPT !.act = "pong"]

\* case d2netpackettype.PlayerDisconnectionNotification: unmarshal and log
DisconnectCase(stringData) ==
    IF Unmarshal(stringData).err THEN Drop ELSE [Drop EXCEPT !.act = "log"]

\* the default case handing the unknown packet to the client
DefaultCaseForwards(packetType) ==
    [act |-> "forward",
     packet |-> [PacketType |-> packetType, PacketData |-> "zero"]]

\* default: print "Unknown packet type"
DefaultCase(packetType) == [Drop EXCEPT !.act = "unknown"]

Switch(packetType, stringData) ==
    CASE packetType = "GenerateMap"      -> ForwardCase(packetType, stringData)
      [] packetType = "MovePlayer"       -> ForwardCase(packetType, stringData)
      [] packetType = "UpdateServerInfo" -> ForwardCase(packetType, stringData)
      [] packetType = "AddPlayer"        -> ForwardCase(packetType, stringData)
      [] packetType = "Ping"             -> PingCase(stringData)
      [] packetType = "PlayerDisconnectionNotification"
                                         -> DisconnectCase(stringData)
      [] OTHER                           -> DefaultCase(packetType)

(***************************************************************************)
(* State                                                                   *)
(***************************************************************************)
Ids == {"u1", "u2"}

NoListener == "nil"

\* the foreground caller: pc is its position inside the call op, ret the
\* value the last call returned; tries are the frames handed to
\* udpConnection.Write by the call and wire those the write accepted; was
\* and had are the active flag and the number of goroutines at the call;
\* closed records that Close has been called on the Connection while it was
\* active
IdleCaller ==
    [pc |-> "idle", op |-> "none", ret |-> "none", frame |-> NoFrame,
     conn |-> NilConn, tries |-> <<>>, wire |-> <<>>, was |-> FALSE, had |-> 0,
     closed |-> FALSE]

\* a serverListener goroutine at its start: the zeroed buffer, and nothing
\* received yet; late counts the datagrams the goroutine has taken from the
\* socket while active was false, since it last saw active true
NewLoop ==
    [pc |-> "check", tag |-> "zero", buffer |-> [i \in 1..BufCap |-> Junk],
     n |-> 0, got |-> "none", text |-> <<>>, calls |-> <<>>, ret |-> "none",
     frame |-> NoFrame, conn |-> NilConn, tries |-> <<>>, wire |-> <<>>,
     late |-> 0]

\* Create(): a fresh id, no socket, no listener, not active
Init ==
    /\ uniqueId \in Ids
    /\ clientListener = NoListener
    /\ udpConnection = NilConn
    /\ active = FALSE
    /\ fg = IdleCaller
    /\ loops = <<>>
    /\ crashed = FALSE

\* a call starts: the caller's record of the previous call is replaced
Call(op) ==
    [IdleCaller EXCEPT !.op = op, !.was = active, !.had = Len(loops),
                       !.closed = fg.closed \/ (op = "Close" /\ active)]

\* a call returns to the caller
Return(t) == IF t.pc = "return" THEN [t EXCEPT !.pc = "idle"] ELSE t

(***************************************************************************)
(* Foreground calls                                                        *)
(***************************************************************************)
\* SpecReopen lets Open be called on a Connection whose goroutine was
\* started already; Spec keeps to one session
CanOpen(reopen) ==
    IF reopen THEN Len(loops) < MaxOpens ELSE loops = <<>>

\* Open marking the Connection active before it has resolved and dialled
OpenDialActivates(reopen, res) ==
    /\ ~crashed /\ fg.pc = "idle" /\ CanOpen(reopen)
    /\ fg' = [Call("Open") EXCEPT
                !.pc = IF res = "ok" THEN "open_active" ELSE "idle",
                !.ret = IF res = "ok" THEN "none" ELSE res]
    /\ udpConnection' = CASE res = "resolve" -> udpConnection
                          [] res = "dial"    -> NilConn
                          [] OTHER           -> Len(loops) + 1
    /\ active' = TRUE
    /\ UNCHANGED <<uniqueId, clientListener, loops, crashed>>

\* Open up to the dial: net.ResolveUDPAddr fails, net.DialUDP fails (and
\* its nil result has been stored in udpConnection), or both succeed
OpenDial(reopen, res) ==
    /\ ~crashed /\ fg.pc = "idle" /\ CanOpen(reopen)
    /\ fg' = [Call("Open") EXCEPT
                !.pc = IF res = "ok" THEN "open_active" ELSE "idle",
                !.ret = IF res = "ok" THEN "none" ELSE res]
    /\ udpConnection' = CASE res = "resolve" -> udpConnection
                          [] res = "dial"    -> NilConn
                          [] OTHER           -> Len(loops) + 1
    /\ UNCHANGED <<uniqueId, clientListener, active, loops, crashed>>

\* Open starting the goroutine without having set the flag
OpenSetActiveSkipped ==
    /\ ~crashed /\ fg.pc = "open_active"
    /\ fg' = [fg EXCEPT !.pc = "open_go"]
    /\ UNCHANGED <<uniqueId, clientListener, udpConnection, active, loops, crashed>>

\* l.active = true
OpenSetActive ==
    /\ ~crashed /\ fg.pc = "open_active"
    /\ active' = TRUE
    /\ fg' = [fg EXCEPT !.pc = "open_go"]
    /\ UNCHANGED <<uniqueId, clientListener, udpConnection, loops, crashed>>

\* go l.serverListener()
OpenGo ==
    /\ ~crashed /\ fg.pc = "open_go"
    /\ loops' = Append(loops, NewLoop)
    /\ fg' = [fg EXCEPT !.pc = "open_send"]
    /\ UNCHANGED <<uniqueId, clientListener, udpConnection, active, crashed>>

\* l.SendPacketToServer(CreatePlayerConnectionRequestPacket(...))
OpenSend ==
    /\ ~crashed /\ fg.pc = "open_send"
    /\ fg' = Return(BeginSend(fg, CreatePlayerConnectionRequestPacket(uniqueId)))
    /\ UNCHANGED <<uniqueId, clientListener, udpConnection, active, loops, crashed>>

\* Close sending the request without clearing the flag
CloseClearSkipped ==
    /\ ~crashed /\ fg.pc = "idle"
    /\ fg' = [Call("Close") EXCEPT !.pc = "close_send"]
    /\ UNCHANGED <<uniqueId, clientListener, udpConnection, active, loops, crashed>>

\* Close: l.active = false
CloseClear ==
    /\ ~crashed /\ fg.pc = "idle"
    /\ active' = FALSE
    /\ fg' = [Call("Close") EXCEPT !.pc = "close_send"]
    /\ UNCHANGED <<uniqueId, clientListener, udpConnection, loops, crashed>>

\* Close closing the socket as well, which makes the pending reads fail
CloseSendUnblocks ==
    /\ ~crashed /\ fg.pc = "close_send"
    /\ fg' = Return(BeginSend(fg, CreatePlayerDisconnectRequestPacket(uniqueId)))
    /\ loops' = [g \in DOMAIN loops |->
                   IF loops[g].pc = "read"
                   THEN [loops[g] EXCEPT !.pc = "check", !.conn = NilConn,
                                         !.got = "error"]
                   ELSE loops[g]]
    /\ UNCHANGED <<uniqueId, clientListener, udpConnection, active, crashed>>

\* Close: l.SendPacketToServer(CreatePlayerDisconnectRequestPacket(...))
CloseSend ==
    /\ ~crashed /\ fg.pc = "close_send"
    /\ fg' = Return(BeginSend(fg, CreatePlayerDisconnectRequestPacket(uniqueId)))
    /\ UNCHANGED <<uniqueId, clientListener, udpConnection, active, loops, crashed>>

\* SendPacketToServer called by the application
Send(packet) ==
    /\ ~crashed /\ fg.pc = "idle"
    /\ fg' = Return(BeginSend(Call("Send"), packet))
    /\ UNCHANGED <<uniqueId, clientListener, udpConnection, active, loops, crashed>>

\* SendPacketToServer deactivating the Connection when the write fails
WriteReturnsTearsDown(out) ==
    /\ ~crashed /\ fg.pc = "write" /\ out \in WriteOutcomes(fg.conn)
    /\ fg' = Return(EndWrite(fg, out))
    /\ active' = (active /\ out # "error")
    /\ crashed' = (out = "panic")
    /\ UNCHANGED <<uniqueId, clientListener, udpConnection, loops>>

\* udpConnection.Write ends inside the foreground's SendPacketToServer: it
\* returns to the caller, or its panic ends the process
WriteReturns(out) ==
    /\ ~crashed /\ fg.pc = "write" /\ out \in WriteOutcomes(fg.conn)
    /\ fg' = Return(EndWrite(fg, out))
    /\ crashed' = (out = "panic")
    /\ UNCHANGED <<uniqueId, clientListener, udpConnection, active, loops>>

SetClientListener(listener) ==
    /\ ~crashed /\ fg.pc = "idle"
    /\ clientListener' = listener
    /\ fg' = [Call("SetClientListener") EXCEPT !.ret = "ok"]
    /\ UNCHANGED <<uniqueId, udpConnection, active, loops, crashed>>

(***************************************************************************)
(* serverListener                                                          *)
(***************************************************************************)
\* a loop that reads again without looking at the flag
LoopForever(g) ==
    /\ ~crashed /\ loops[g].pc = "check"
    /\ loops' = [loops EXCEPT ![g] =
                   [NewLoop EXCEPT !.pc = "call", !.buffer = loops[g].buffer,
                                   !.late = IF active THEN 0 ELSE loops[g].late]]
    /\ UNCHANGED <<uniqueId, clientListener, udpConnection, active, fg, crashed>>

\* for l.active { ... }: the load of the flag in the loop condition.
\* The locals of the iteration that ended (n, packetType, sb, ...) are gone;
\* the buffer, made once before the loop, keeps its content.  The type
\* byte buffer[0] is only read right after a read with n > 0 has written
\* it, so the model keeps it with the locals and buffer holds buffer[1:].
\* The flag is a plain bool written by the foreground without
\* synchronisation: the load sees the value from before or from after a
\* concurrent store of Open or Close, and both outcomes are runs of the
\* model, with this step before or after OpenSetActive / CloseClear.
LoopCheck(g) ==
    /\ ~crashed /\ loops[g].pc = "check"
    /\ loops' = [loops EXCEPT ![g] =
                   IF active
                   THEN [NewLoop EXCEPT !.pc = "call", !.buffer = loops[g].buffer]
                   ELSE [NewLoop EXCEPT !.pc = "done", !.late = loops[g].late]]
    /\ UNCHANGED <<uniqueId, clientListener, udpConnection, active, fg, crashed>>

\* l.udpConnection.ReadFromUDP(buffer): the load of the field, a step of
\* its own after the load of the flag, and the call.  On a nil
\* *net.UDPConn (the second Open failed at the dial) the call dereferences
\* nil and panics.
ReadCall(g) ==
    /\ ~crashed /\ loops[g].pc = "call"
    /\ loops' = [loops EXCEPT ![g] =
                   [@ EXCEPT !.conn = udpConnection,
                             !.pc = IF udpConnection = NilConn
                                    THEN "panic" ELSE "read"]]
    /\ crashed' = (udpConnection = NilConn)
    /\ UNCHANGED <<uniqueId, clientListener, udpConnection, active, fg>>

\* what an iteration starts from once ReadFromUDP has returned
Fresh(l, got) == [l EXCEPT !.conn = NilConn, !.got = got]

\* a read error ending the goroutine
ReadErrorExits(g) ==
    /\ ~crashed /\ loops[g].pc = "read"
    /\ loops' = [loops EXCEPT ![g] = [Fresh(@, "error") EXCEPT !.pc = "done"]]
    /\ UNCHANGED <<uniqueId, clientListener, udpConnection, active, fg, crashed>>

\* ReadFromUDP returns an error: print it and continue
ReadError(g) ==
    /\ ~crashed /\ loops[g].pc = "read"
    /\ loops' = [loops EXCEPT ![g] = [Fresh(@, "error") EXCEPT !.pc = "check"]]
    /\ UNCHANGED <<uniqueId, clientListener, udpConnection, active, fg, crashed>>

\* ReadFromUDP returns n = 0: continue
ReadEmpty(g) ==
    /\ ~crashed /\ loops[g].pc = "read"
    /\ loops' = [loops EXCEPT ![g] =
                   [Fresh(@, "empty") EXCEPT !.pc = "check", !.n = 0]]
    /\ UNCHANGED <<uniqueId, clientListener, udpConnection, active, fg, crashed>>

\* ReadFromUDP returns the datagram d; the rest of the iteration, up to the
\* next loop condition or to the socket write of the pong
Receive(g, d) ==
    /\ ~crashed /\ loops[g].pc = "read"
    /\ LET l == [Fresh(loops[g], "datagram") EXCEPT
                    !.buffer = Overlay(@, d.body), !.tag = d.tag,
                    !.n = 1 + Len(d.body),
                    !.late = IF active THEN 0 ELSE @ + 1]
           c == IoCopy(l.buffer, 1, <<>>)
           s == Switch(l.tag, c.text)
           m == [l EXCEPT !.text = c.text]
       IN  CASE NewReaderFails(l.buffer) ->
                  \* io.Copy reads from the nil *gzip.Reader
                  /\ loops' = [loops EXCEPT ![g] = [l EXCEPT !.pc = "panic"]]
                  /\ crashed' = TRUE
             [] ~NewReaderFails(l.buffer) /\ Len(c.text) = 0 ->
                  \* written == 0: continue
                  /\ loops' = [loops EXCEPT ![g] = [l EXCEPT !.pc = "check"]]
                  /\ crashed' = FALSE
             [] OTHER ->
                  CASE s.act = "forward" /\ clientListener = NoListener ->
                         \* SendPacketToClient calls a nil interface
                         /\ loops' = [loops EXCEPT ![g] = [m EXCEPT !.pc = "panic"]]
                         /\ crashed' = TRUE
                    [] s.act = "forward" /\ clientListener # NoListener ->
                         \* OnPacketReceived returns nil or an error, which
                         \* is logged
                         /\ \E cbErr \in BOOLEAN :
                              loops' = [loops EXCEPT ![g] =
                                [m EXCEPT !.pc = "check",
                                          !.calls = <<[packet |-> s.packet,
                                                       err |-> cbErr]>>]]
                         /\ crashed' = FALSE
                    [] s.act = "pong" ->
                         /\ loops' = [loops EXCEPT ![g] =
                                LET w == BeginSend(m, CreatePongPacket(uniqueId))
                                IN  IF w.pc = "return"
                                    THEN [w EXCEPT !.pc = "check"] ELSE w]
                         /\ crashed' = FALSE
                    [] OTHER ->
                         /\ loops' = [loops EXCEPT ![g] = [m EXCEPT !.pc = "check"]]
                         /\ crashed' = FALSE
    /\ UNCHANGED <<uniqueId, clientListener, udpConnection, active, fg>>

\* udpConnection.Write ends inside the goroutine's SendPacketToServer: an
\* error is logged and the loop goes on; a panic ends the process
PongWriteReturns(g, out) ==
    /\ ~crashed /\ loops[g].pc = "write" /\ out \in WriteOutcomes(loops[g].conn)
    /\ loops' = [loops EXCEPT ![g] =
                   IF out = "panic" THEN EndWrite(@, out)
                   ELSE [EndWrite(@, out) EXCEPT !.pc = "check"]]
    /\ crashed' = (out = "panic")
    /\ UNCHANGED <<uniqueId, clientListener, udpConnection, active, fg>>

(***************************************************************************)
(* Specifications                                                          *)
(***************************************************************************)
Step(reopen, dgrams) ==
    \/ \E res \in {"resolve", "dial", "ok"} : OpenDial(reopen, res)
    \/ OpenSetActive
    \/ OpenGo
    \/ OpenSend
    \/ CloseClear
    \/ CloseSend
    \/ \E t \in SendTypes, p \in Payloads :
          Send([PacketType |-> t, PacketData |-> p])
    \/ \E out \in CallEnds : WriteReturns(out)
    \/ SetClientListener("client")
    \/ \E g \in DOMAIN loops : LoopCheck(g)
    \/ \E g \in DOMAIN loops : ReadCall(g)
    \/ \E g \in DOMAIN loops : ReadError(g)
    \/ \E g \in DOMAIN loops : ReadEmpty(g)
    \/ \E g \in DOMAIN loops, d \in dgrams : Receive(g, d)
    \/ \E g \in DOMAIN loops, out \in CallEnds : PongWriteReturns(g, out)

\* one session: every datagram the peer can send
Next == Step(FALSE, Datagrams)

Spec == Init /\ [][Next]_vars

\* every sequence of calls, with the frames of a well-behaved server and one
\* malformed datagram
NextReopen == Step(TRUE, SessionDatagrams)

SpecReopen == Init /\ [][NextReopen]_vars

\* one session with a peer that sends gzip members only
NextStream == Step(FALSE, StreamDatagrams)

SpecStream == Init /\ [][NextStream]_vars

\* one session with the frames of a well-behaved server and one malformed
\* datagram
NextSession == Step(FALSE, SessionDatagrams)

\* the goroutine of the session is scheduled: it evaluates its loop
\* condition, calls the read, or the socket write of its pong returns
LoopRuns ==
    \E g \in DOMAIN loops :
        \/ LoopCheck(g)
        \/ ReadCall(g)
        \/ \E out \in CallEnds : PongWriteReturns(g, out)

\* the pending ReadFromUDP of the goroutine returns
ReadReturns ==
    \E g \in DOMAIN loops :
        ReadError(g) \/ ReadEmpty(g) \/ \E d \in SessionDatagrams : Receive(g, d)

\* one session in which the goroutine keeps being scheduled and every read
\* it is blocked in returns at some time, with a datagram or an error
SpecLive ==
    /\ Init /\ [][NextSession]_vars
    /\ WF_vars(LoopRuns) /\ WF_vars(ReadReturns)

(***************************************************************************)
(* Properties                                                              *)
(***************************************************************************)
\* the body of the datagram the goroutine l took from its last read
Body(l) == SubSeq(l.buffer, 1, l.n - 1)

\* a body as SendPacketToServer builds it: one gzip member, not empty
IsFrame(body) ==
    Len(body) = 1 /\ body[1].k = "member" /\ body[1].text # <<>>

\* a body that starts with a gzip header
StartsGzip(body) == Len(body) >= 1 /\ body[1].k # "junk"

\* Codec.Decode applied to the bytes of the datagram alone fails: no gzip
\* stream, an error while inflating, or nothing inflated
DecodeFails(body) ==
    \/ body = <<>>
    \/ NewReaderFails(body)
    \/ IoCopy(body, 1, <<>>).err
    \/ IoCopy(body, 1, <<>>).text = <<>>

PongFrame == [tag |-> "Pong", body |-> <<Member(<<uniqueId>>)>>]

DisconnectFrame ==
    [tag |-> "PlayerDisconnectionRequest", body |-> <<Member(<<uniqueId>>)>>]

ConnectionRequestFrame ==
    [tag |-> "PlayerConnectionRequest", body |-> <<Member(<<uniqueId>>)>>]

\* C1: with a Listener installed, whatever datagram the receive loop of a
\* Connection takes from the socket, the loop does not crash: it is back at
\* its loop condition or answering a ping.
C1_NoDatagramEndsSession ==
    \A g \in DOMAIN loops :
        (loops[g].got = "datagram" /\ clientListener # NoListener)
            => (loops[g].pc \in {"check", "write"} /\ ~crashed)

\* C2 as stated: once the loop is through with a ping frame, exactly one
\* pong frame carrying the Connection's id has gone out on the socket and
\* the Listener was not called.
C2_PongOnTheWire ==
    \A g \in DOMAIN loops :
        (loops[g].got = "datagram" /\ loops[g].pc = "check"
            /\ loops[g].tag = "Ping" /\ IsFrame(Body(loops[g])))
            => (loops[g].wire = <<PongFrame>> /\ loops[g].calls = <<>>)

\* C2 amended: for a ping frame the loop calls the socket write exactly
\* once, with a pong frame carrying the Connection's id, and never calls the
\* Listener; the pong is transmitted exactly when that write succeeds, and
\* a failed write transmits nothing.
C2_PingAnsweredOnce ==
    \A g \in DOMAIN loops :
        (loops[g].got = "datagram" /\ loops[g].tag = "Ping"
            /\ IsFrame(Body(loops[g])))
            => /\ loops[g].pc \in {"write", "check"}
               /\ loops[g].tries = <<PongFrame>>
               /\ loops[g].calls = <<>>
               /\ loops[g].pc = "write" => loops[g].wire = <<>>
               /\ loops[g].pc = "check" =>
                    /\ loops[g].ret \in {"ok", "write"}
                    /\ loops[g].wire =
                         IF loops[g].ret = "ok" THEN <<PongFrame>> ELSE <<>>

C2_Witness ==
    \E g \in DOMAIN loops :
        /\ loops[g].got = "datagram" /\ loops[g].pc = "check"
        /\ loops[g].tag = "Ping" /\ IsFrame(Body(loops[g]))
        /\ loops[g].ret = "ok" /\ loops[g].wire = <<PongFrame>>

\* C3: a frame whose type has no case in the switch is dropped: no Listener
\* call, no socket write, and the loop is back at its loop condition.
C3_UnknownTypeDropped ==
    \A g \in DOMAIN loops :
        (loops[g].got = "datagram" /\ loops[g].tag \notin KnownInbound
            /\ StartsGzip(Body(loops[g])))
            => /\ loops[g].pc = "check" /\ ~crashed
               /\ loops[g].calls = <<>>
               /\ loops[g].tries = <<>> /\ loops[g].wire = <<>>

C3_Witness ==
    \E g \in DOMAIN loops :
        /\ loops[g].got = "datagram" /\ loops[g].tag = "Pong"
        /\ IsFrame(Body(loops[g])) /\ loops[g].text = <<"a">>
        /\ loops[g].pc = "check" /\ clientListener # NoListener

\* C4 as stated: whenever Close has returned, exactly one disconnect-request
\* frame carrying the Connection's id went out and active is false.
C4_DisconnectOnTheWire ==
    (fg.pc = "idle" /\ fg.op = "Close")
        => (fg.wire = <<DisconnectFrame>> /\ ~active)

\* C4 amended: whenever Close has returned, active is false and the call
\* has handed exactly one disconnect-request frame carrying the
\* Connection's id to the socket; the frame was transmitted exactly when
\* Close returned no error (when the write fails, nothing is transmitted).
C4_CloseReturns ==
    (fg.pc = "idle" /\ fg.op = "Close")
        => /\ ~active
           /\ fg.tries = <<DisconnectFrame>>
           /\ fg.ret \in {"ok", "write"}
           /\ fg.wire = IF fg.ret = "ok" THEN <<DisconnectFrame>> ELSE <<>>

C4_Witness ==
    /\ fg.pc = "idle" /\ fg.op = "Close" /\ fg.ret = "ok" /\ fg.was
    /\ fg.wire = <<DisconnectFrame>> /\ ~active
    /\ \E g \in DOMAIN loops : loops[g].pc = "read"

\* C5: when Open returns the error of the resolution or of the dial, the
\* active flag is what it was at the call, no goroutine was started and
\* nothing was handed to the socket.
C5_FailedOpenLeavesInactive ==
    (fg.pc = "idle" /\ fg.op = "Open" /\ fg.ret \in {"resolve", "dial"})
        => /\ active = fg.was
           /\ Len(loops) = fg.had
           /\ fg.tries = <<>> /\ fg.wire = <<>>

C5_Witness ==
    /\ fg.pc = "idle" /\ fg.op = "Open" /\ fg.ret = "dial"
    /\ ~fg.was /\ ~active /\ loops = <<>>

\* C6: once resolution and dial have succeeded, Open sets active before it
\* starts the goroutine and starts the goroutine before it sends the
\* connection request; when that send fails, Open returns the error with
\* active still true and the goroutine not ended.
C6_OpenOrder ==
    /\ fg.pc = "open_active" => (Len(loops) = fg.had /\ fg.tries = <<>>)
    /\ fg.pc = "open_go" => (active /\ Len(loops) = fg.had /\ fg.tries = <<>>)
    /\ fg.pc = "open_send" =>
           (active /\ Len(loops) = fg.had + 1 /\ fg.tries = <<>>)
    /\ (fg.op = "Open" /\ fg.pc = "write") =>
           /\ active /\ Len(loops) = fg.had + 1
           /\ fg.tries = <<ConnectionRequestFrame>>
    /\ (fg.op = "Open" /\ fg.pc = "idle" /\ fg.ret \in {"ok", "write"}) =>
           /\ active /\ Len(loops) = fg.had + 1
           /\ loops[fg.had + 1].pc # "done"
           /\ fg.tries = <<ConnectionRequestFrame>>

C6_Witness ==
    /\ fg.op = "Open" /\ fg.pc = "idle" /\ fg.ret = "write"
    /\ active /\ Len(loops) = fg.had + 1
    /\ loops[fg.had + 1].pc = "read"

\* C7: when the datagram the loop has taken is a frame of type
\* generate-map, move-player, update-server-info or add-player whose
\* payload deserializes, the Listener has been called exactly once, with
\* that type and that payload, nothing was written to the socket and the
\* loop is back at its loop condition; a disconnect-notification frame
\* causes no Listener call and no socket write.
C7_DispatchTable ==
    \A g \in DOMAIN loops :
        /\ (loops[g].got = "datagram" /\ loops[g].tag \in Forwardable
               /\ IsFrame(Body(loops[g]))
               /\ ~Unmarshal(Body(loops[g])[1].text).err)
              => /\ loops[g].pc = "check"
                 /\ Len(loops[g].calls) = 1
                 /\ loops[g].calls[1].packet =
                        [PacketType |-> loops[g].tag,
                         PacketData |-> Unmarshal(Body(loops[g])[1].text).packet]
                 /\ loops[g].tries = <<>>
        /\ (loops[g].got = "datagram"
               /\ loops[g].tag = "PlayerDisconnectionNotification"
               /\ IsFrame(Body(loops[g])))
              => (loops[g].calls = <<>> /\ loops[g].tries = <<>>)

\* C8: a datagram whose body does not decode (it is no gzip stream, the
\* inflation reports an error, or nothing is inflated) is dropped: no
\* Listener call, no pong, and the loop is back at its loop condition.
\* Stated here for the bodies that start with a gzip header and with a
\* Listener installed; a body that does not start with one is the case of
\* C1.
C8_UndecodableDropped ==
    \A g \in DOMAIN loops :
        (loops[g].got = "datagram" /\ clientListener # NoListener
            /\ StartsGzip(Body(loops[g])) /\ DecodeFails(Body(loops[g])))
            => /\ loops[g].pc = "check"
               /\ loops[g].calls = <<>> /\ loops[g].tries = <<>>

\* C9: for every type that has a case in the switch, ping included, a
\* decoded payload that does not deserialize leads to no Listener call and
\* no pong.
C9_MismatchDropped ==
    \A g \in DOMAIN loops :
        (loops[g].got = "datagram" /\ loops[g].tag \in KnownInbound
            /\ loops[g].text # <<>> /\ Unmarshal(loops[g].text).err)
            => (loops[g].calls = <<>> /\ loops[g].tries = <<>>)

\* C10 as stated: when the socket write of Send or of Close has failed,
\* the call returns the error and active is what it was at the call.
C10_FailedWriteKeepsActive ==
    (fg.pc = "idle" /\ fg.op \in {"Send", "Close"} /\ fg.tries # fg.wire)
        => (fg.ret = "write" /\ active = fg.was)

\* C10 amended: when the socket write of Send or of Close has failed, the
\* call returns the error; after Send active is what it was at the call,
\* after Close it is false whatever it was (Close clears it before it
\* sends).
C10_FailedWrite ==
    (fg.pc = "idle" /\ fg.op \in {"Send", "Close"} /\ fg.tries # fg.wire)
        => /\ fg.ret = "write"
           /\ fg.op = "Send" => active = fg.was
           /\ fg.op = "Close" => ~active

C10_Witness ==
    /\ fg.pc = "idle" /\ fg.op = "Send" /\ fg.tries # fg.wire
    /\ fg.ret = "write" /\ fg.was /\ active

\* C11: a call of Send ends by returning; it hands at most one frame to
\* the socket, and only a frame whose compressed body is not empty; when it
\* returns success that one frame went out, and when it returns an error
\* nothing went out: a serialization error or an empty body is returned
\* before the socket is touched, and after a failed write the call does not
\* write again.
C11_OneDatagramOrNone ==
    /\ fg.op = "Send" => fg.pc \in {"write", "idle"}
    /\ (fg.op = "Send" /\ fg.pc = "write") =>
           /\ Len(fg.tries) = 1 /\ fg.tries[1] = fg.frame
           /\ IsFrame(fg.frame.body) /\ fg.wire = <<>>
    /\ (fg.op = "Send" /\ fg.pc = "idle") =>
           /\ fg.ret \in {"ok", "write", "marshal", "empty"}
           /\ fg.ret = "ok" =>
                 (Len(fg.tries) = 1 /\ fg.wire = fg.tries
                     /\ IsFrame(fg.tries[1].body))
           /\ fg.ret = "write" =>
                 (Len(fg.tries) = 1 /\ fg.wire = <<>>
                     /\ IsFrame(fg.tries[1].body))
           /\ fg.ret \in {"marshal", "empty"} =>
                 (fg.tries = <<>> /\ fg.wire = <<>>)

\* C12: once Close has been called on a Connection, its active flag is
\* never true again, whatever calls of Open, Send and Close follow.  Stated
\* for the Connections that were active when Close was called.
C12_ClosedIsTerminal == fg.closed => ~active

\* the serverListener goroutines that have been started and have not ended
Running == {g \in DOMAIN loops : loops[g].pc \notin {"done", "panic"}}

\* C13: at every moment at most one receive loop is running for the
\* Connection, whatever calls of Open and Close have been made.
C13_AtMostOneLoop == Cardinality(Running) <= 1

\* C14: once Close has set active to false, and as long as no Open sets it
\* again, a receive loop takes at most one further datagram from the socket
\* and dispatches it, whether Close ran before the loop's flag check,
\* between the check and the read, or while the read was pending.
C14_OneMoreDatagram ==
    \A g \in DOMAIN loops :
        /\ loops[g].late <= 1
        /\ (loops[g].pc \in {"call", "read"} /\ loops[g].late = 1) => active

C14_Witness ==
    \E g \in DOMAIN loops :
        /\ loops[g].pc = "done" /\ loops[g].late = 1
        /\ fg.op = "Close" /\ fg.pc = "idle" /\ ~active

\* the goroutine g has just been through a read error, a read of zero
\* bytes, or a Listener callback that returned an error
Survived(g) ==
    \/ loops[g].got \in {"error", "empty"}
    \/ loops[g].calls # <<>> /\ loops[g].calls[1].err

\* one step of the goroutine g, as C15 allows it
C15_Step(g) ==
    \* the goroutine ends only at its loop condition, with active false
    /\ (loops[g].pc # "done" /\ loops'[g].pc = "done")
          => (loops[g].pc = "check" /\ ~active)
    \* at the loop condition with active true, the next steps are the call
    \* of the read and the read
    /\ (loops[g].pc = "check" /\ active /\ loops'[g] # loops[g])
          => loops'[g].pc = "call"
    /\ (loops[g].pc = "call" /\ loops'[g] # loops[g])
          => loops'[g].pc = "read"
    \* the return of the read, and the callback, change nothing of the
    \* foreground caller
    /\ (loops[g].pc = "read" /\ loops'[g] # loops[g]) => fg' = fg

\* C15: a read error, a read of zero bytes and a Listener callback that
\* returns an error each take the loop back to its loop condition, from
\* where, while active is true, it reads again; the loop ends only at the
\* loop condition with active false, and the Listener's error reaches no
\* caller.
C15_ExitOnlyOnFlag ==
    /\ [](\A g \in DOMAIN loops : Survived(g) => loops[g].pc = "check")
    /\ [][\A g \in DOMAIN loops : C15_Step(g)]_vars

C15_Witness ==
    \E g \in DOMAIN loops :
        /\ loops[g].got = "datagram" /\ loops[g].pc = "check" /\ active
        /\ loops[g].calls # <<>> /\ loops[g].calls[1].err
        /\ fg.pc = "idle" /\ ~crashed

\* every goroutine that was started has ended, by leaving its loop or with
\* the process
AllEnded == crashed \/ \A g \in DOMAIN loops : loops[g].pc = "done"

\* one step, as C16 allows it
C16_Step ==
    \* the steps of Close leave the socket and the goroutines as they are
    /\ (fg'.op = "Close" /\ fg' # fg)
          => (udpConnection' = udpConnection /\ loops' = loops)
    \* a goroutine leaves its pending read only when the read returns
    /\ \A g \in DOMAIN loops :
          (loops[g].pc = "read" /\ loops'[g] # loops[g])
              => loops'[g].got \in {"error", "empty", "datagram"}
    \* and ends only from its loop condition
    /\ \A g \in DOMAIN loops :
          (loops[g].pc # "done" /\ loops'[g].pc = "done")
              => loops[g].pc = "check"

\* C16: Close does not close the socket and does not unblock a pending
\* read; a goroutine blocked in its read stays there until the read returns
\* with a datagram or an error; and when every pending read returns at some
\* time, the goroutine has ended at some time after Close.
C16_CooperativeShutdown ==
    /\ [][C16_Step]_vars
    /\ (fg.closed ~> AllEnded)

C16_Witness ==
    /\ fg.op = "Close" /\ fg.pc = "idle" /\ fg.closed /\ ~active
    /\ udpConnection # NilConn
    /\ \E g \in DOMAIN loops : loops[g].pc = "read" /\ loops[g].conn = udpConnection

\* C17: with a Listener installed, when the datagram the loop has taken is
\* the frame SendPacketToServer builds for a forwardable type T and a
\* payload P that serializes, the Listener has been called exactly once,
\* with the packet (T, P).
C17_RoundTrip ==
    \A g \in DOMAIN loops, T \in Forwardable, P \in PeerPayloads :
        LET e == Encode([PacketType |-> T, PacketData |-> P])
        IN  (e.err = "none" /\ clientListener # NoListener
                /\ loops[g].got = "datagram" /\ loops[g].tag = e.frame.tag
                /\ Body(loops[g]) = e.frame.body)
              => /\ loops[g].pc = "check"
                 /\ Len(loops[g].calls) = 1
                 /\ loops[g].calls[1].packet =
                        [PacketType |-> T, PacketData |-> P]

\* C18: at no time are two calls of udpConnection.Write in progress, be it
\* in the foreground (Send, Close, the connection request of Open) or in a
\* receive loop (the pong).
C18_WritesSerialized ==
    Cardinality({g \in DOMAIN loops :
                    loops[g].pc = "write" /\ loops[g].conn # NilConn})
        + (IF fg.pc = "write" /\ fg.conn # NilConn THEN 1 ELSE 0) <= 1

\* C19: what the loop does with a datagram is decided by the bytes of that
\* datagram: the text it dispatches is the text those bytes inflate to,
\* and a datagram that is a type byte only leads to no Listener call and no
\* pong.
C19_OwnBytesOnly ==
    \A g \in DOMAIN loops :
        loops[g].got = "datagram"
            => /\ loops[g].text = IoCopy(Body(loops[g]), 1, <<>>).text
               /\ loops[g].n = 1 =>
                     (loops[g].calls = <<>> /\ loops[g].tries = <<>>)

\* C20: a forwardable frame that arrives while no Listener is installed
\* does not crash the receive loop: the loop is back at its loop condition
\* and no callback was made.
C20_NoListenerNoCrash ==
    \A g \in DOMAIN loops :
        (loops[g].got = "datagram" /\ loops[g].tag \in Forwardable
            /\ IsFrame(Body(loops[g])) /\ ~Unmarshal(loops[g].text).err
            /\ clientListener = NoListener)
            => (loops[g].pc = "check" /\ ~crashed /\ loops[g].calls = <<>>)

====
